---------------------------- MODULE Spec2Model ----------------------------
(***************************************************************************)
(* The authentication routes of the Accessibility Education Portal        *)
(* (backend/routes/auth.py) as a state machine.                           *)
(*                                                                         *)
(* State: users, the user collection of the document store; now, the wall *)
(* clock in minutes; nextId, the next reading of the microsecond clock    *)
(* that ids are made of; held, the bearer token the clients present; pc   *)
(* and loc, the position and the locals of each client's request inside a *)
(* handler (register_user and login_user yield between their store        *)
(* calls); out, the HTTP response that left the server last; verifyOk,    *)
(* the number of verify-email successes reported per user id; loginOk,   *)
(* the number of logins answered with a token pair per user id.           *)
(***************************************************************************)
EXTENDS Integers, Sequences, FiniteSets

(* ------------------------------ bounds -------------------------------- *)

\* the clock stops advancing after MaxTime minutes
MaxTime == 31
\* number of UserInDB objects register_user may build
MaxRegs == 2
\* login bookkeeping is followed up to this login_count
MaxLogins == 2

(* ----------------------------- constants ------------------------------ *)

ACCESS_TOKEN_EXPIRE_MINUTES == 30
REFRESH_TOKEN_EXPIRE_DAYS == 7
RefreshMinutes == REFRESH_TOKEN_EXPIRE_DAYS * 24 * 60
ResetMinutes == 1 * 60

\* Python's None for a datetime / an absent "exp" claim
NoTime == 0 - 1

Procs == {"c1", "c2"}
Solo == {"c1"}
Emails == {"a@x.com", "A@x.com"}
RegEmail == "a@x.com"
Passwords == {"pw1", "pw2"}
Roles == {"student", "teacher", "admin"}
ADMIN == "admin"
Names == {"n1"}
DefaultName == "n0"

\* str.lower() on the e-mail addresses of the model
Lower(e) == IF e = "A@x.com" THEN "a@x.com" ELSE e

VARIABLES users, now, nextId, held, pc, loc, out, verifyOk, loginOk

vars == <<users, now, nextId, held, pc, loc, out, verifyOk, loginOk>>

(* ------------------------- password hashing --------------------------- *)

\* pwd_context.hash: the bcrypt hash, of which the model keeps the password
\* it verifies.  The random salt is not kept: two hashes of one password
\* are different strings, which change_password accounts for.
get_password_hash(password) == [pw |-> password]

verify_password_Always(plain_password, hashed_password) == TRUE

\* pwd_context.verify
verify_password(plain_password, hashed_password) ==
    hashed_password.pw = plain_password

(* ------------------------------ tokens -------------------------------- *)

\* A JWT: its claims and whether its HS256 signature verifies under
\* SECRET_KEY.  "purpose" is the intent of the issuing call; it is not a
\* claim of the token and no decoder can read it.
Jwt(sub, type, exp, user_id, purpose) ==
    [sub |-> sub, type |-> type, exp |-> exp, user_id |-> user_id,
     sig |-> "valid", purpose |-> purpose]

\* what a client without a server-issued token can present
ForgedToken ==
    [sub |-> "a@x.com", type |-> "", exp |-> NoTime, user_id |-> 1,
     sig |-> "forged", purpose |-> "access"]

create_access_token(sub, type, t, expires_delta, purpose) ==
    Jwt(sub, type, t + expires_delta, 0, purpose)

create_refresh_token(sub, t) ==
    Jwt(sub, "", t + RefreshMinutes, 0, "refresh")

\* the token mailed by send_verification_email(email, new_user.id)
verification_token(user_id) ==
    Jwt("", "", NoTime, user_id, "email_verification")

JwtDecodeIgnoringExp(tok, t) == tok.sig = "valid"

\* jwt.decode(token, SECRET_KEY, algorithms=[ALGORITHM]): the signature
\* verifies and, when the token has an "exp" claim, exp >= now
JwtDecode(tok, t) ==
    /\ tok.sig = "valid"
    /\ (tok.exp # NoTime => tok.exp >= t)


(* -------------------------- credential store -------------------------- *)

Min(S) == CHOOSE x \in S : \A y \in S : x <= y

\* user_collection.find_one({"email": email}): the first document whose
\* email is exactly `email` (0: None)
find_one_email(email) ==
    LET S == {i \in DOMAIN users : users[i].email = email}
    IN  IF S = {} THEN 0 ELSE Min(S)

\* the document update_one({"id": user_id}, ...) matches (0: none)
find_one_id(user_id) ==
    LET S == {i \in DOMAIN users : users[i].id = user_id}
    IN  IF S = {} THEN 0 ELSE Min(S)

\* the unique (case-insensitive) e-mail key of the store: insert_one raises
\* DuplicateKeyError when it is taken
DuplicateKey(doc) ==
    \E i \in DOMAIN users : Lower(users[i].email) = Lower(doc.email)

\* UserInDB(**user_dict, id=..., hashed_password=..., created_at=...,
\* updated_at=...): the remaining fields take the model's defaults.
\* created_at, which no route reads or writes again, is left out.
NewUser(id, email, hashed_password, role, t) ==
    [id |-> id, email |-> email, hashed_password |-> hashed_password,
     role |-> role, name |-> DefaultName,
     is_active |-> TRUE, is_verified |-> FALSE,
     last_login |-> NoTime, login_count |-> 0,
     updated_at |-> t]

(* ----------------------------- responses ------------------------------ *)

\* the "user" of a response body that carries none
NoUser == [email |-> "", login_count |-> 0]

\* UserResponse(**user.dict()): the public projection, of which the model
\* keeps email and login_count
UserResponse(user) == [email |-> user.email, login_count |-> user.login_count]

\* an HTTP response: the handler (op), the branch of it that returned,
\* status code, detail/message text, the tokens and the "user" of the body
Http(op, branch, status, text, tokens) ==
    [op |-> op, branch |-> branch, status |-> status, text |-> text,
     tokens |-> tokens, user |-> NoUser]

NoResp == Http("none", "none", 0, "", {})
NoLoc == [none |-> TRUE]

\* the response leaves the server
Reply(p, r) == out' = r

(* ------------------------- authorization gate ------------------------- *)

\* get_current_user: the index of the resolved user, 0 for
\* credentials_exception
get_current_user(tok, t) ==
    IF ~JwtDecode(tok, t) THEN 0
    ELSE IF tok.sub = "" THEN 0
    ELSE find_one_email(tok.sub)

\* the HTTPException get_current_active_user raises
InactiveUserError == [status |-> 400, text |-> "Inactive user"]

CredentialsError == [status |-> 401, text |-> "Could not validate credentials"]

\* Depends(get_current_active_user): the resolved user or the error raised
get_current_active_user(tok, t) ==
    LET i == get_current_user(tok, t)
    IN  IF i = 0
        THEN [ok |-> FALSE, branch |-> "credentials", err |-> CredentialsError, i |-> 0]
        ELSE IF ~users[i].is_active
        THEN [ok |-> FALSE, branch |-> "inactive", err |-> InactiveUserError, i |-> i]
        ELSE [ok |-> TRUE, branch |-> "ok", err |-> CredentialsError, i |-> i]

role_dependency_NoAdmin(role, required_role) == role = required_role

\* role_dependency passes unless
\* current_user.role != required_role and current_user.role != UserRole.ADMIN
role_dependency(role, required_role) ==
    ~(role # required_role /\ role # ADMIN)

GateError(p, op, g) ==
    Reply(p, Http(op, g.branch, g.err.status, g.err.text, {}))


(* ------------------------------- Init --------------------------------- *)

Init ==
    /\ users = << >>
    /\ now = 0
    /\ nextId = 1
    /\ held = ForgedToken
    /\ pc = [p \in Procs |-> "idle"]
    /\ loc = [p \in Procs |-> NoLoc]
    /\ out = NoResp
    /\ verifyOk = [id \in 1..MaxRegs |-> 0]
    /\ loginOk = [id \in 1..MaxRegs |-> 0]

Idle(p) == pc[p] = "idle"

Goto(p, label, locals) ==
    /\ pc' = [pc EXCEPT ![p] = label]
    /\ loc' = [loc EXCEPT ![p] = locals]

\* the client keeps its bearer token or replaces it by one it was sent
Receive(p, tokens) == \E tok \in {held} \cup tokens : held' = tok

(* ------------------------------ register ------------------------------ *)

\* register_user up to the await of insert_one: the existence check and
\* the construction of new_user.  The id is a reading of the microsecond
\* clock, later than every earlier reading.
RegisterFind(p, email, password, role) ==
    /\ Idle(p)
    /\ IF find_one_email(email) # 0
       THEN /\ Reply(p, Http("register", "exists", 400, "Email already registered", {}))
            /\ UNCHANGED <<users, now, nextId, held, pc, loc, verifyOk, loginOk>>
       ELSE /\ nextId <= MaxRegs
            /\ Goto(p, "register_insert",
                    [new_user |-> NewUser(nextId, email,
                                          get_password_hash(password), role, now),
                     t |-> now])
            /\ nextId' = nextId + 1
            /\ UNCHANGED <<users, now, held, out, verifyOk, loginOk>>

RegisterResponse_FailOnSend(sent) ==
    IF sent THEN Http("register", "ok", 201, "created", {})
    ELSE Http("register", "send_failed", 500, "Failed to send verification email", {})

\* what register_user answers after the insert: the exception of a failed
\* send_verification_email is caught and printed
RegisterResponse(sent) ==
    Http("register", IF sent THEN "ok" ELSE "ok_send_failed", 201, "created", {})

\* register_user from insert_one on: the insert, then the best-effort
\* verification e-mail (sent: it was delivered), then the 201 response.
\* A DuplicateKeyError of insert_one is not caught.  insert_one always
\* reports an inserted_id, so the 500 of line 138 is never raised.
RegisterInsert(p) ==
    /\ pc[p] = "register_insert"
    /\ Goto(p, "idle", NoLoc)
    /\ LET new_user == loc[p].new_user
       IN  IF DuplicateKey(new_user)
           THEN /\ Reply(p, Http("register", "duplicate_key", 500, "Internal Server Error", {}))
                /\ UNCHANGED <<users, now, nextId, held, verifyOk, loginOk>>
           ELSE /\ users' = Append(users, new_user)
                /\ \E sent \in BOOLEAN :
                      /\ Receive(p, IF sent THEN {verification_token(new_user.id)} ELSE {})
                      /\ Reply(p, RegisterResponse(sent))
                /\ UNCHANGED <<now, nextId, verifyOk, loginOk>>

(* -------------------------------- login ------------------------------- *)

LoginError_Leaky(branch) ==
    CASE branch = "no_user" -> [status |-> 404, text |-> "User not found"]
      [] branch = "bad_password" -> [status |-> 401, text |-> "Incorrect email or password"]
      [] OTHER -> [status |-> 400, text |-> "Account is deactivated"]

\* the HTTPException login_user raises on each failing branch
LoginError(branch) ==
    CASE branch = "no_user" -> [status |-> 401, text |-> "Incorrect email or password"]
      [] branch = "bad_password" -> [status |-> 401, text |-> "Incorrect email or password"]
      [] OTHER -> [status |-> 400, text |-> "Account is deactivated"]

login_check_ActiveFirst(i, password) ==
    IF i = 0 THEN "no_user"
    ELSE IF ~users[i].is_active THEN "inactive"
    ELSE IF ~verify_password(password, users[i].hashed_password) THEN "bad_password"
    ELSE "ok"

login_check_NoActive(i, password) ==
    IF i = 0 THEN "no_user"
    ELSE IF ~verify_password(password, users[i].hashed_password) THEN "bad_password"
    ELSE "ok"

\* the branch login_user takes for the document find_one returned
login_check(i, password) ==
    IF i = 0 THEN "no_user"
    ELSE IF ~verify_password(password, users[i].hashed_password) THEN "bad_password"
    ELSE IF ~users[i].is_active THEN "inactive"
    ELSE "ok"

\* logins of `email` that have passed the checks and await update_one
PendingLogins(email) ==
    Cardinality({q \in Procs : pc[q] = "login_update" /\ loc[q].user.email = email})

\* login_user up to the await of update_one: lookup, checks, token creation
LoginFind(p, email, password) ==
    /\ Idle(p)
    /\ LET i == find_one_email(email)
           branch == login_check(i, password)
       IN  IF branch # "ok"
           THEN /\ Reply(p, Http("login", branch, LoginError(branch).status,
                                 LoginError(branch).text, {}))
                /\ UNCHANGED <<users, now, nextId, held, pc, loc, verifyOk, loginOk>>
           ELSE /\ users[i].login_count + PendingLogins(email) < MaxLogins
                /\ Goto(p, "login_update",
                        [user |-> users[i],
                         access_token |-> create_access_token(users[i].email, "", now,
                                              ACCESS_TOKEN_EXPIRE_MINUTES, "access"),
                         refresh_token |-> create_refresh_token(users[i].email, now),
                         t |-> now])
                /\ UNCHANGED <<users, now, nextId, held, out, verifyOk, loginOk>>

LoginStats_ReadModifyWrite(doc, user, t) ==
    [doc EXCEPT !.last_login = t, !.login_count = user.login_count + 1]

\* the stored document doc after update_one's
\* {"$set": {"last_login": t}, "$inc": {"login_count": 1}}; user, the
\* document login_user read before, takes no part in it
LoginStats(doc, user, t) ==
    [doc EXCEPT !.last_login = t, !.login_count = @ + 1]

\* the body login_user returns: the token pair and UserResponse(**user.dict())
\* of user, the document read before update_one
LoginResponse(user, tokens) ==
    [Http("login", "ok", 200, "bearer", tokens) EXCEPT !.user = UserResponse(user)]

\* login_user from update_one on: $set last_login, $inc login_count in one
\* store operation, then the response with the token pair.  stored: the
\* store carried the update out; when update_one raises instead, nothing
\* catches it and the request ends in the framework's 500.
LoginUpdate(p) ==
    /\ pc[p] = "login_update"
    /\ Goto(p, "idle", NoLoc)
    /\ LET i == find_one_email(loc[p].user.email)
           tokens == {loc[p].access_token, loc[p].refresh_token}
           doc == LoginStats(users[i], loc[p].user, loc[p].t)
       IN  \E stored \in BOOLEAN :
              IF stored
              THEN /\ users' = [users EXCEPT ![i] = doc]
                   /\ Reply(p, LoginResponse(loc[p].user, tokens))
                   /\ Receive(p, tokens)
                   /\ loginOk' = [loginOk EXCEPT ![users[i].id] = @ + 1]
              ELSE /\ Reply(p, Http("login", "update_failed", 500,
                                    "Internal Server Error", {}))
                   /\ UNCHANGED <<users, held, loginOk>>
    /\ UNCHANGED <<now, nextId, verifyOk>>

(* --------------------------- gated handlers --------------------------- *)

\* GET /me
GetMe(p) ==
    /\ Idle(p)
    /\ LET g == get_current_active_user(held, now)
       IN  IF ~g.ok THEN GateError(p, "get_me", g)
           ELSE Reply(p, Http("get_me", "ok", 200, users[g.i].email, {}))
    /\ UNCHANGED <<users, now, nextId, held, pc, loc, verifyOk, loginOk>>

Logout_Deactivating(p) ==
    /\ Idle(p)
    /\ LET g == get_current_active_user(held, now)
       IN  IF ~g.ok
           THEN /\ GateError(p, "logout", g)
                /\ UNCHANGED users
           ELSE /\ Reply(p, Http("logout", "ok", 200, "Successfully logged out", {}))
                /\ users' = [users EXCEPT ![g.i].is_active = FALSE]
    /\ UNCHANGED <<now, nextId, held, pc, loc, verifyOk, loginOk>>

\* POST /logout
Logout(p) ==
    /\ Idle(p)
    /\ LET g == get_current_active_user(held, now)
       IN  IF ~g.ok THEN GateError(p, "logout", g)
           ELSE Reply(p, Http("logout", "ok", 200, "Successfully logged out", {}))
    /\ UNCHANGED <<users, now, nextId, held, pc, loc, verifyOk, loginOk>>

\* a handler declared with Depends(require_role(required_role))
RoleGated(p, required_role) ==
    /\ Idle(p)
    /\ LET g == get_current_active_user(held, now)
       IN  IF ~g.ok THEN GateError(p, "role_gated", g)
           ELSE IF ~role_dependency(users[g.i].role, required_role)
           THEN Reply(p, Http("role_gated", required_role, 403, "Not enough permissions", {}))
           ELSE Reply(p, Http("role_gated", required_role, 200, users[g.i].role, {}))
    /\ UNCHANGED <<users, now, nextId, held, pc, loc, verifyOk, loginOk>>

ApplyProfileUpdate_SetsEmail(doc, name, t) ==
    [doc EXCEPT !.name = IF name = "None" THEN @ ELSE name,
                !.email = "A@x.com",
                !.updated_at = t]

ApplyProfileUpdate_SetsVerified(doc, name, t) ==
    [doc EXCEPT !.name = IF name = "None" THEN @ ELSE name,
                !.is_verified = TRUE,
                !.updated_at = t]

\* the document after {"$set": update_data}, update_data being the
\* non-None fields of the UserUpdate body ("None": not supplied) and
\* updated_at
ApplyProfileUpdate(doc, name, t) ==
    [doc EXCEPT !.name = IF name = "None" THEN @ ELSE name,
                !.updated_at = t]

\* UserUpdate's validation of the request body: a body that supplies id,
\* email or hashed_password (immutable) is refused
UserUpdateRejects(immutable) == immutable

\* PUT /me: the gate, the validation of the body, update_one
\* (modified_count == 0 is reported as a failure), then the document is
\* read back.  auth.py does not import UserUpdate (lines 13-16); the route
\* is modelled as if it did.
UpdateProfile(p, name, immutable) ==
    /\ Idle(p)
    /\ LET g == get_current_active_user(held, now)
       IN  IF ~g.ok
           THEN /\ GateError(p, "update_profile", g)
                /\ UNCHANGED users
           ELSE IF UserUpdateRejects(immutable)
           THEN /\ Reply(p, Http("update_profile", "immutable_field", 422,
                                 "Unprocessable Entity", {}))
                /\ UNCHANGED users
           ELSE LET doc == ApplyProfileUpdate(users[g.i], name, now)
                IN  /\ users' = [users EXCEPT ![g.i] = doc]
                    /\ IF doc = users[g.i]
                       THEN Reply(p, Http("update_profile", "not_modified", 400,
                                          "Failed to update profile", {}))
                       ELSE Reply(p, Http("update_profile", "ok", 200, doc.name, {}))
    /\ UNCHANGED <<now, nextId, held, pc, loc, verifyOk, loginOk>>

\* POST /change-password: the gate, the check of current_password against
\* the resolved user, the new hash, update_one.  The freshly salted hash
\* differs from the stored one, so the matched document is always modified
\* (modified_count = 1).
ChangePassword(p, current_password, new_password) ==
    /\ Idle(p)
    /\ LET g == get_current_active_user(held, now)
       IN  IF ~g.ok
           THEN /\ GateError(p, "change_password", g)
                /\ UNCHANGED users
           ELSE IF ~verify_password(current_password, users[g.i].hashed_password)
           THEN /\ Reply(p, Http("change_password", "bad_password", 400,
                                 "Incorrect current password", {}))
                /\ UNCHANGED users
           ELSE /\ users' = [users EXCEPT
                               ![g.i].hashed_password = get_password_hash(new_password),
                               ![g.i].updated_at = now]
                /\ Reply(p, Http("change_password", "ok", 200,
                                 "Password changed successfully", {}))
    /\ UNCHANGED <<now, nextId, held, pc, loc, verifyOk, loginOk>>

(* ------------------------- ungated handlers --------------------------- *)

ForgotGeneric == "If the email exists, a password reset link has been sent"

\* POST /forgot-password (sent: send_password_reset_email did not raise)
ForgotPassword(p, email) ==
    /\ Idle(p)
    /\ LET i == find_one_email(email)
       IN  IF i = 0
           THEN /\ Reply(p, Http("forgot_password", "no_user", 200, ForgotGeneric, {}))
                /\ UNCHANGED held
           ELSE \E sent \in BOOLEAN :
                  IF sent
                  THEN /\ Receive(p, {create_access_token(users[i].email, "password_reset",
                                          now, ResetMinutes, "password_reset")})
                       /\ Reply(p, Http("forgot_password", "sent", 200, ForgotGeneric, {}))
                  ELSE /\ Reply(p, Http("forgot_password", "send_failed", 500,
                                        "Failed to send password reset email", {}))
                       /\ UNCHANGED held
    /\ UNCHANGED <<users, now, nextId, pc, loc, verifyOk, loginOk>>

VerifiedDocs_TouchesLogin(user_id, t) ==
    LET i == find_one_id(user_id)
    IN  IF i = 0 THEN users
        ELSE [users EXCEPT ![i].is_verified = TRUE, ![i].updated_at = t,
                           ![i].last_login = t]

\* the collection after update_one({"id": user_id},
\* {"$set": {"is_verified": True, "updated_at": t}})
VerifiedDocs(user_id, t) ==
    LET i == find_one_id(user_id)
    IN  IF i = 0 THEN users
        ELSE [users EXCEPT ![i].is_verified = TRUE, ![i].updated_at = t]

\* GET /verify-email/{verification_token}; verifyOk counts (up to 2) the
\* successes reported for each user id
VerifyEmail(p) ==
    /\ Idle(p)
    /\ LET tok == held
       IN  IF ~JwtDecode(tok, now) \/ tok.user_id = 0
           THEN /\ Reply(p, Http("verify_email", "invalid_token", 400,
                                 "Invalid verification token", {}))
                /\ UNCHANGED <<users, verifyOk>>
           ELSE /\ users' = VerifiedDocs(tok.user_id, now)
                /\ IF users' = users
                   THEN /\ Reply(p, Http("verify_email", "not_modified", 400,
                                         "User not found or already verified", {}))
                        /\ UNCHANGED verifyOk
                   ELSE /\ Reply(p, Http("verify_email", "ok", 200,
                                         "Email verified successfully", {}))
                        /\ verifyOk' = [verifyOk EXCEPT ![tok.user_id] =
                                            IF @ < 2 THEN @ + 1 ELSE @]
    /\ UNCHANGED <<now, nextId, held, pc, loc, loginOk>>

(* ---------------------------- environment ----------------------------- *)

\* an administrator (routes/admin) activates or deactivates an account
SetActive(i, active) ==
    /\ i \in DOMAIN users
    /\ users[i].is_active # active
    /\ users' = [users EXCEPT ![i].is_active = active, ![i].updated_at = now]
    /\ UNCHANGED <<now, nextId, held, pc, loc, out, verifyOk, loginOk>>

\* the clock advances past the lifetime of an access token
Tick ==
    /\ now + ACCESS_TOKEN_EXPIRE_MINUTES + 1 <= MaxTime
    /\ now' = now + ACCESS_TOKEN_EXPIRE_MINUTES + 1
    /\ UNCHANGED <<users, nextId, held, pc, loc, out, verifyOk, loginOk>>

\* One client sends its requests one after the other, while the
\* administrator and the clock act at any time, also between the two steps
\* of a handler.  It registers RegEmail; the other address of Emails is
\* never registered.
Next ==
    \/ \E p \in Solo, password \in Passwords, role \in Roles :
          RegisterFind(p, RegEmail, password, role)
    \/ \E p \in Solo : RegisterInsert(p)
    \/ \E p \in Solo, email \in Emails, password \in Passwords : LoginFind(p, email, password)
    \/ \E p \in Solo : LoginUpdate(p)
    \/ \E p \in Solo : GetMe(p)
    \/ \E p \in Solo : Logout(p)
    \/ \E p \in Solo, required_role \in Roles : RoleGated(p, required_role)
    \/ \E p \in Solo, name \in Names \cup {"None"}, immutable \in BOOLEAN :
          UpdateProfile(p, name, immutable)
    \/ \E p \in Solo, current_password \in Passwords, new_password \in Passwords :
          ChangePassword(p, current_password, new_password)
    \/ \E p \in Solo, email \in Emails : ForgotPassword(p, email)
    \/ \E p \in Solo : VerifyEmail(p)
    \/ \E i \in 1..MaxRegs, active \in BOOLEAN : SetActive(i, active)
    \/ Tick

Spec == Init /\ [][Next]_vars

\* Two clients whose register and login requests interleave at the awaits
NextRace ==
    \/ \E p \in Procs, email \in Emails, password \in Passwords, role \in Roles :
          RegisterFind(p, email, password, role)
    \/ \E p \in Procs : RegisterInsert(p)
    \/ \E p \in Procs, email \in Emails, password \in Passwords : LoginFind(p, email, password)
    \/ \E p \in Procs : LoginUpdate(p)
    \/ Tick

SpecRace == Init /\ [][NextRace]_vars

(* ------------------------------ properties ---------------------------- *)

\* a request of client p to a handler behind Depends(get_current_active_user)
GatedRequest(p) ==
    \/ GetMe(p)
    \/ Logout(p)
    \/ \E required_role \in Roles : RoleGated(p, required_role)
    \/ \E name \in Names \cup {"None"}, immutable \in BOOLEAN :
          UpdateProfile(p, name, immutable)
    \/ \E current_password \in Passwords, new_password \in Passwords :
          ChangePassword(p, current_password, new_password)

\* C1: a correctly signed, unexpired token that was not issued as an access
\* token (a refresh token of login, a password-reset token of
\* forgot_password, a verification token) is rejected with 401 by every
\* gated handler, and the handler changes nothing.
C1_CrossPurposeRejected ==
    [][\A p \in Solo :
          (GatedRequest(p) /\ JwtDecode(held, now) /\ held.purpose # "access")
          => (out'.status = 401 /\ users' = users)]_vars

\* C2: register requests for one e-mail address (compared case-insensitively)
\* end in success or in Conflict (400 "Email already registered"), and the
\* store never holds two records for the address.
C2_OneSuccessElseConflict ==
    /\ \A i, j \in DOMAIN users :
          Lower(users[i].email) = Lower(users[j].email) => i = j
    /\ out.op = "register" =>
          \/ out.status = 201
          \/ out.status = 400 /\ out.text = "Email already registered"

\* C3: a login with an unknown e-mail address and a login with a known
\* address and a wrong password get the same status and the same message
\* (401, "Incorrect email or password") and no token.
C3_LoginFailuresIndistinguishable ==
    [][\A p \in Solo, email \in Emails, password \in Passwords :
          (/\ LoginFind(p, email, password)
           /\ \/ find_one_email(email) = 0
              \/ ~verify_password(password, users[find_one_email(email)].hashed_password))
          => out' = Http("login", out'.branch, 401, "Incorrect email or password", {})]_vars

C3_Witness ==
    /\ out.op = "login" /\ out.branch = "bad_password" /\ out.status = 401
    /\ find_one_email(RegEmail) # 0

\* C4: forgot_password answers 200 with the generic message whether or not
\* the address exists and whatever happens to the reset e-mail.
C4_ForgotAlwaysGeneric ==
    out.op = "forgot_password" => (out.status = 200 /\ out.text = ForgotGeneric)

\* C5: for a resolved active user, a handler behind require_role(R) runs
\* exactly when the user's role is R or Admin, and otherwise answers 403.
C5_RequireRole ==
    [][\A p \in Solo, required_role \in Roles :
          LET g == get_current_active_user(held, now)
          IN  (RoleGated(p, required_role) /\ g.ok)
              => /\ out'.status = 200 <=>
                       (users[g.i].role = required_role \/ users[g.i].role = ADMIN)
                 /\ out'.status # 200 => out'.status = 403]_vars

C5_Witness ==
    /\ out.op = "role_gated" /\ out.branch = "teacher"
    /\ out.status = 200 /\ out.text = ADMIN

\* C6: a correctly signed access token presented after its expiry time is
\* rejected with 401 by every gated handler, and the handler changes nothing.
C6_ExpiredRejected ==
    [][\A p \in Solo :
          (GatedRequest(p) /\ held.sig = "valid" /\ held.exp # NoTime /\ held.exp < now)
          => (out'.status = 401 /\ users' = users)]_vars

GatedOps == {"get_me", "logout", "role_gated", "update_profile", "change_password"}

C6_Witness ==
    /\ out.op \in GatedOps /\ out.status = 401
    /\ held.sig = "valid" /\ held.purpose = "access" /\ held.exp < now
    /\ find_one_email(held.sub) # 0
    /\ users[find_one_email(held.sub)].is_active

\* C7: when a valid, unexpired access token resolves to a user who is not
\* active, every gated handler answers 401 and changes nothing.
C7_InactiveUnauthenticated ==
    [][\A p \in Solo :
          LET i == get_current_user(held, now)
          IN  (GatedRequest(p) /\ held.purpose = "access" /\ i # 0 /\ ~users[i].is_active)
              => (out'.status = 401 /\ users' = users)]_vars

\* C8: a login with the correct password for a user read as inactive
\* answers 400 "Account is deactivated", carries no token and leaves the
\* store and the client's token unchanged; every login that does return
\* tokens is for a user read as active.
C8_DeactivatedLoginFails ==
    [][\A p \in Solo :
          /\ \A email \in Emails, password \in Passwords :
                LET i == find_one_email(email)
                IN  (/\ LoginFind(p, email, password)
                     /\ i # 0
                     /\ verify_password(password, users[i].hashed_password)
                     /\ ~users[i].is_active)
                    => /\ out' = Http("login", "inactive", 400, "Account is deactivated", {})
                       /\ pc'[p] = "idle"
                       /\ users' = users /\ held' = held
          /\ LoginUpdate(p) => loc[p].user.is_active]_vars

C8_Witness ==
    /\ out.op = "login" /\ out.branch = "inactive" /\ out.status = 400
    /\ \E i \in DOMAIN users : ~users[i].is_active /\ users[i].login_count > 0

C10_SecondRedemptionRejected ==
    \A id \in DOMAIN verifyOk : verifyOk[id] <= 1

\* C11: last_login and login_count of a stored user change only in the
\* update step of a login of that user that answers 200; failed logins and
\* every other operation leave both fields as they were.
C11_LoginStatsOnlyByLogin ==
    [][\A i \in DOMAIN users :
          (\/ users'[i].last_login # users[i].last_login
           \/ users'[i].login_count # users[i].login_count)
          => \E p \in Solo :
                /\ LoginUpdate(p)
                /\ loc[p].user.email = users[i].email
                /\ out'.op = "login" /\ out'.status = 200]_vars

C11_Witness ==
    /\ out.op = "login" /\ out.branch = "bad_password"
    /\ now = MaxTime
    /\ \E i \in DOMAIN users :
          users[i].login_count = 1 /\ users[i].last_login = 0 /\ users[i].is_verified

\* C12: the response of the first login of a user that answers 200 carries
\* an access token and a refresh token and a user projection whose
\* login_count is 1.
C12_FirstLoginCountsOne ==
    (/\ out.op = "login" /\ out.status = 200
     /\ find_one_email(out.user.email) # 0
     /\ loginOk[users[find_one_email(out.user.email)].id] = 1)
    => /\ \E a \in out.tokens : a.purpose = "access"
       /\ \E r \in out.tokens : r.purpose = "refresh"
       /\ out.user.login_count = 1

\* C13: once the credentials were found correct and the account active,
\* the login answers 200 with the token pair, whether or not the store
\* carries out the update of last_login and login_count.
C13_LoginSurvivesUpdateFailure ==
    [][\A p \in Solo :
          LoginUpdate(p)
          => /\ out'.status = 200
             /\ out'.tokens = {loc[p].access_token, loc[p].refresh_token}]_vars

\* C14: a registration whose insert meets no duplicate stores the new user
\* and answers 201, whether or not the verification e-mail could be sent.
C14_RegisterSurvivesSendFailure ==
    [][\A p \in Solo :
          (RegisterInsert(p) /\ ~DuplicateKey(loc[p].new_user))
          => /\ out'.op = "register" /\ out'.status = 201
             /\ users' = Append(users, loc[p].new_user)]_vars

C14_Witness ==
    /\ out.op = "register" /\ out.branch = "ok_send_failed" /\ out.status = 201
    /\ Len(users) = 1
    /\ held.purpose # "email_verification"

\* C15: for a caller that passes the gate, change_password with a wrong
\* current password answers 400 and leaves the store unchanged; with the
\* correct one it stores the hash of the new password, after which login's
\* checks pass for the new password and, when the two differ, end in the
\* 401 "Incorrect email or password" for the old one.
C15_ChangePassword ==
    [][\A p \in Solo, current_password \in Passwords, new_password \in Passwords :
          \A i \in DOMAIN users :
             (/\ ChangePassword(p, current_password, new_password)
              /\ get_current_active_user(held, now).ok
              /\ get_current_active_user(held, now).i = i)
             => IF users[i].hashed_password.pw # current_password
                THEN /\ out'.status = 400
                     /\ out'.text = "Incorrect current password"
                     /\ users' = users
                ELSE /\ out'.status = 200
                     /\ users'[i].hashed_password = get_password_hash(new_password)
                     /\ (login_check(i, new_password))' = "ok"
                     /\ new_password # current_password
                        => /\ (login_check(i, current_password))' = "bad_password"
                           /\ LoginError("bad_password").status = 401
                           /\ LoginError("bad_password").text
                                 = "Incorrect email or password"]_vars

C15_Witness ==
    /\ out.op = "change_password" /\ out.branch = "ok"
    /\ \E i \in DOMAIN users :
          /\ users[i].login_count >= 1
          /\ users[i].updated_at = MaxTime
          /\ users[i].last_login = 0

C17_UpdatedAtBumped ==
    [][\A i \in DOMAIN users :
          users'[i] # users[i]
          => /\ users'[i].updated_at >= users[i].updated_at
             /\ \/ users'[i].updated_at = now
                \/ \E p \in Solo : /\ pc[p] = "login_update"
                                   /\ users'[i].updated_at = loc[p].t]_vars

\* C18: logout leaves the store and the client's token unchanged, and the
\* token a logout answering 200 was made with passes the gate after it as
\* it did before.
C18_LogoutNoOp ==
    [][\A p \in Solo :
          Logout(p)
          => /\ users' = users /\ held' = held
             /\ out'.op = "logout"
             /\ out'.status = 200
                => /\ get_current_active_user(held, now).ok
                   /\ (get_current_active_user(held, now).ok)']_vars

C18_Witness ==
    /\ out.op = "logout" /\ out.status = 200
    /\ get_current_active_user(held, now).ok

\* C19: under every interleaving of the login requests of two clients, the
\* stored login_count of each user equals the number of logins of that
\* user answered with 200 (it starts at 0 with the record).
C19_NoLostIncrement ==
    \A i \in DOMAIN users : users[i].login_count = loginOk[users[i].id]

C19_Witness ==
    /\ out.op = "login" /\ out.status = 200 /\ out.user.login_count = 0
    /\ \E i \in DOMAIN users :
          /\ users[i].email = out.user.email
          /\ users[i].login_count = 2
          /\ loginOk[users[i].id] = 2

\* C20: a login for a deactivated account with a wrong password answers
\* the 401 "Incorrect email or password"; a login answers "Account is
\* deactivated" only when the password presented is the stored one.
C20_PasswordBeforeActive ==
    [][\A p \in Solo, email \in Emails, password \in Passwords :
          LET i == find_one_email(email)
          IN  LoginFind(p, email, password)
              => /\ (/\ i # 0
                     /\ ~users[i].is_active
                     /\ users[i].hashed_password.pw # password)
                    => out' = Http("login", "bad_password", 401,
                                   "Incorrect email or password", {})
                 /\ (pc'[p] = "idle" /\ out'.text = "Account is deactivated")
                    => (i # 0 /\ users[i].hashed_password.pw = password)]_vars

C20_Witness ==
    /\ out.op = "login" /\ out.branch = "bad_password" /\ out.status = 401
    /\ \E i \in DOMAIN users : ~users[i].is_active /\ users[i].updated_at = MaxTime

=============================================================================
